---- MODULE Spec2Model ----
(***************************************************************************)
(* Payout reconciliation engine (recon.py): three matching strategies,     *)
(* tolerance classification and 3-hour bucketed aggregation.               *)
(*                                                                         *)
(* Conventions of the model                                                *)
(*   - a text value is a sequence of one-character strings;                *)
(*   - a cell that may be missing (NaN / NaT) is Null == <<>> or <<v>>;    *)
(*   - an instant is an integer number of hours since an epoch (UTC); a    *)
(*     timezone is its UTC offset in hours; a naive timestamp is the wall  *)
(*     clock hour in its declared zone;                                    *)
(*   - amounts are integers.                                               *)
(***************************************************************************)
EXTENDS Integers, Sequences, FiniteSets, TLC

VARIABLES backend_df, wallet_df, b_cols, w_cols, pc, strategy, args, result

vars == <<backend_df, wallet_df, b_cols, w_cols, pc, strategy, args, result>>

(***************************************************************************)
(* Bounds of the model                                                     *)
(***************************************************************************)
MaxBackend == 2
MaxWallet == 2

(***************************************************************************)
(* Program constants                                                       *)
(***************************************************************************)
BucketHours == 3
MarginHours == 6
MinutesPerHour == 60

(***************************************************************************)
(* Optional values                                                         *)
(***************************************************************************)
Null == <<>>
Some(v) == <<v>>
IsNa(c) == c = Null
Val(c) == c[1]

Abs(n) == IF n < 0 THEN 0 - n ELSE n

(***************************************************************************)
(* Text helpers: str.strip, str.upper, str.lower, re.sub(r"\s+", " ")      *)
(***************************************************************************)
LowerAlpha == <<"a","b","c","d","e","f","g","h","i","j","k","l","m","n","o","p","q","r","s","t","u","v","w","x","y","z">>
UpperAlpha == <<"A","B","C","D","E","F","G","H","I","J","K","L","M","N","O","P","Q","R","S","T","U","V","W","X","Y","Z">>
Whitespace == {" "}
Digits == {"0","1","2","3","4","5","6","7","8","9"}
Letters == {LowerAlpha[i] : i \in 1..26} \cup {UpperAlpha[i] : i \in 1..26}

UpperMap == [c \in {LowerAlpha[i] : i \in 1..26} |-> UpperAlpha[CHOOSE i \in 1..26 : LowerAlpha[i] = c]]
LowerMap == [c \in {UpperAlpha[i] : i \in 1..26} |-> LowerAlpha[CHOOSE i \in 1..26 : UpperAlpha[i] = c]]

UpperChar(c) == IF c \in DOMAIN UpperMap THEN UpperMap[c] ELSE c

LowerChar(c) == IF c \in DOMAIN LowerMap THEN LowerMap[c] ELSE c

Upper(s) == [i \in 1..Len(s) |-> UpperChar(s[i])]
Lower(s) == [i \in 1..Len(s) |-> LowerChar(s[i])]

Strip(s) ==
  LET keep == SelectSeq([i \in 1..Len(s) |-> i], LAMBDA i : s[i] \notin Whitespace)
  IN IF Len(keep) = 0 THEN <<>> ELSE SubSeq(s, keep[1], keep[Len(keep)])

\* every run of whitespace is replaced by one space
CollapseWs(s) ==
  LET kept == SelectSeq([i \in 1..Len(s) |-> i],
                        LAMBDA i : s[i] \notin Whitespace \/ i = 1 \/ s[i-1] \notin Whitespace)
  IN [k \in 1..Len(kept) |-> IF s[kept[k]] \in Whitespace THEN " " ELSE s[kept[k]]]

\* astype(str): a missing cell is rendered as the text "nan"
AsStr(cell) == IF IsNa(cell) THEN <<"n","a","n">> ELSE Val(cell)

_norm_col(name) == CollapseWs(Lower(Strip(name)))

_clean_id(cell) == Upper(Strip(AsStr(cell)))

\* pd.to_numeric(errors="coerce").astype(float): unparseable cells are NaN
_safe_float(cell) == cell

\* A zone-aware timestamp is its wall clock hour with the zone offset.
\* dt.tz_localize(tz): the naive wall clock is declared to be in tz
tz_localize(wall, tz) == [wall |-> wall, tz |-> tz]

\* the absolute instant (UTC hour) of a zone-aware timestamp
InstantOf(t) == t.wall - t.tz

\* variant of tz_convert that keeps the wall clock and relabels the zone
tz_convert_wall(t, tz) == [wall |-> t.wall, tz |-> tz]

\* dt.tz_convert(tz): the same instant, as wall clock of tz
tz_convert(t, tz) == [wall |-> (t.wall - t.tz) + tz, tz |-> tz]

\* naive wall-clock hour in source_tz -> instant; unparseable stays NaT
_to_utc(cell, source_tz) ==
  IF IsNa(cell) THEN Null
  ELSE Some(InstantOf(tz_convert(tz_localize(Val(cell), source_tz), 0)))

\* ts_utc.dt.tz_convert(tz); the columns of the frames hold instants
TzConvert(ts, tz) ==
  IF IsNa(ts) THEN Null
  ELSE Some(InstantOf(tz_convert(tz_localize(Val(ts), 0), tz)))

\* ts.dt.floor("3H"): floor of the wall clock in the zone of the timestamp
bucket_3h(ts, tz) ==
  IF IsNa(ts) THEN Null
  ELSE LET local == Val(ts) + tz
       IN Some((local - (local % BucketHours)) - tz)

(***************************************************************************)
(* Column resolution                                                       *)
(* A frame's columns are a sequence of [name, field]: the header text and  *)
(* the field of the row records that the column holds.                     *)
(***************************************************************************)
ColNames(cols) == [i \in 1..Len(cols) |-> cols[i].name]

HasCol(cols, name) == \E i \in 1..Len(cols) : cols[i].name = name

FieldOf(cols, name) == cols[CHOOSE i \in 1..Len(cols) : cols[i].name = name].field

\* candidates: requested (when non-empty) followed by the fallbacks
Candidates(requested, fallbacks) ==
  (IF requested # <<>> THEN <<requested>> ELSE <<>>) \o fallbacks

\* norm_map[key]: the dict keeps the last column with that normalised name
NormMapGet(cols, norm_names, key) ==
  LET hits == SelectSeq([i \in 1..Len(cols) |-> i], LAMBDA i : norm_names[i] = key)
  IN cols[hits[Len(hits)]].name

NormMapHas(norm_names, key) == \E i \in 1..Len(norm_names) : norm_names[i] = key

_resolve_col(cols, requested, fallbacks) ==
  LET cand == Candidates(requested, fallbacks)
      norm_names == [i \in 1..Len(cols) |-> _norm_col(cols[i].name)]
      ok == SelectSeq(cand, LAMBDA c : NormMapHas(norm_names, _norm_col(c)))
  IN IF Len(ok) = 0
     THEN [ok |-> FALSE, name |-> <<>>,
           err |-> [msg |-> "Column not found", tried |-> cand, available |-> ColNames(cols)]]
     ELSE [ok |-> TRUE, name |-> NormMapGet(cols, norm_names, _norm_col(ok[1])),
           err |-> [msg |-> "", tried |-> <<>>, available |-> <<>>]]

\* df[name]: plain column access, exact header or KeyError(name)
DirectCol(cols, name) ==
  IF HasCol(cols, name)
  THEN [ok |-> TRUE, name |-> name,
        err |-> [msg |-> "", tried |-> <<>>, available |-> <<>>]]
  ELSE [ok |-> FALSE, name |-> <<>>,
        err |-> [msg |-> "KeyError", tried |-> <<name>>, available |-> ColNames(cols)]]

NoError == [msg |-> "", tried |-> <<>>, available |-> <<>>]

BackendIdFallbacks ==
  << <<"T","r","a","n","s","a","c","t","i","o","n"," ","I","D">>,
     <<"T","r","a","c","k","i","n","g"," ","I","D">>,
     <<"T","r","a","c","k","i","n","g","I","D">>,
     <<"t","r","a","c","k","i","n","g"," ","i","d">>,
     <<"t","r","a","c","k","i","n","g","_","i","d">>,
     <<"T","x","n"," ","I","D">>,
     <<"T","X","N"," ","I","D">>,
     <<"R","e","f","e","r","e","n","c","e">>,
     <<"R","e","f","e","r","e","n","c","e"," ","I","D">> >>

WalletIdFallbacks == Tail(BackendIdFallbacks)

BackendTsFallbacks ==
  << <<"C","r","e","a","t","e","d">>,
     <<"C","r","e","a","t","e","d"," ","A","t">>,
     <<"C","r","e","a","t","e","d","A","t">>,
     <<"c","r","e","a","t","e","d">>,
     <<"c","r","e","a","t","e","d"," ","a","t">> >>

RiseTsFallbacks ==
  << <<"D","a","t","e">>,
     <<"T","i","m","e","s","t","a","m","p">>,
     <<"C","r","e","a","t","e","d">>,
     <<"c","r","e","a","t","e","d">>,
     <<"d","a","t","e">> >>

BackendAmountFallbacks ==
  << <<"D","i","s","b","u","r","s","e","m","e","n","t"," ","A","m","o","u","n","t">>,
     <<"D","i","s","b","u","r","s","e","m","e","n","t"," ","a","m","o","u","n","t">>,
     <<"A","m","o","u","n","t">>,
     <<"a","m","o","u","n","t">> >>

RiseAmountFallbacks ==
  << <<"A","m","o","u","n","t">>,
     <<"a","m","o","u","n","t">>,
     <<"N","e","t"," ","A","m","o","u","n","t">>,
     <<"n","e","t"," ","a","m","o","u","n","t">> >>

(***************************************************************************)
(* Cell arithmetic with NaN / NaT propagation                              *)
(***************************************************************************)
AbsCell(c) == IF IsNa(c) THEN Null ELSE Some(Abs(Val(c)))

SubCell(a, b) == IF IsNa(a) \/ IsNa(b) THEN Null ELSE Some(Val(a) - Val(b))

\* (ts_report_backend - ts_report_wallet).dt.total_seconds() / 60
DelayMin(tb, tw) ==
  IF IsNa(tb) \/ IsNa(tw) THEN Null ELSE Some((Val(tb) - Val(tw)) * MinutesPerHour)

(***************************************************************************)
(* Windowing                                                               *)
(***************************************************************************)
\* variant of InWindow with the end of the interval included
InWindow_closed(ts, report_start, report_end) ==
  ~IsNa(ts) /\ Val(ts) >= report_start /\ Val(ts) <= report_end

\* (ts >= report_start) & (ts < report_end); a comparison with NaT is False
InWindow(ts, report_start, report_end) ==
  ~IsNa(ts) /\ Val(ts) >= report_start /\ Val(ts) < report_end

\* variant of InMargin that keeps every counterparty row with a timestamp
InMargin_none(ts, report_start, report_end) == ~IsNa(ts)

\* (ts >= report_start - 6h) & (ts < report_end + 6h)
InMargin(ts, report_start, report_end) ==
  ~IsNa(ts) /\ Val(ts) >= report_start - MarginHours /\ Val(ts) < report_end + MarginHours

(***************************************************************************)
(* Classification                                                          *)
(***************************************************************************)
\* variant of IsMatched with the tolerance bound excluded
IsMatched_strict(r, tolerance_minutes) ==
  ~IsNa(r.ts_report_wallet) /\ ~IsNa(r.delay_min) /\ Abs(Val(r.delay_min)) < tolerance_minutes

IsMatched(r, tolerance_minutes) ==
  ~IsNa(r.ts_report_wallet) /\ ~IsNa(r.delay_min) /\ Abs(Val(r.delay_min)) <= tolerance_minutes

IsLateSync(r, tolerance_minutes) ==
  ~IsNa(r.ts_report_wallet) /\ ~IsNa(r.delay_min) /\ Abs(Val(r.delay_min)) > tolerance_minutes

IsMissingTrue(r) == IsNa(r.ts_report_wallet)

\* one row of "merged": the backend row b with the wallet timestamp and
\* amount joined to it; src is the position of the backend row in backend_df
MergedRow(b, ts_report_wallet, amount_wallet, report_tz) ==
  [src |-> b.src,
   key |-> b.key,
   txn_id |-> b.txn_id,
   ts_report_backend |-> b.ts_report_backend,
   amount_backend |-> b.amount_backend,
   ts_report_wallet |-> ts_report_wallet,
   amount_wallet |-> amount_wallet,
   delay_min |-> DelayMin(b.ts_report_backend, ts_report_wallet),
   amount_diff |-> SubCell(b.amount_backend, amount_wallet),
   bucket_3h |-> bucket_3h(b.ts_report_backend, report_tz)]

(***************************************************************************)
(* Bucketed aggregation                                                    *)
(***************************************************************************)
\* variant of AllBuckets with inclusive="both"
AllBuckets_both(report_start, report_end) ==
  IF report_end < report_start THEN <<>>
  ELSE [k \in 1..(((report_end - report_start) \div BucketHours) + 1)
          |-> report_start + (k - 1) * BucketHours]

\* pd.date_range(start, end, freq="3H", inclusive="left")
AllBuckets(report_start, report_end) ==
  IF report_end <= report_start THEN <<>>
  ELSE [k \in 1..(((report_end - report_start) + (BucketHours - 1)) \div BucketHours)
          |-> report_start + (k - 1) * BucketHours]

\* groupby(...).size() of the rows whose bucket key equals w
CountIn(rows, w) == Cardinality({i \in 1..Len(rows) : rows[i].bucket_3h = Some(w)})

\* agg(("txn_id", "count")): the non-missing txn_id cells of the bucket
CountTxnIn(rows, w) ==
  Cardinality({i \in 1..Len(rows) : rows[i].bucket_3h = Some(w) /\ ~IsNa(rows[i].txn_id)})

\* groupby(...).sum(): NaN cells are skipped; abs = TRUE sums absolute values
SumIn(rows, w, field, abs) ==
  LET F[i \in 0..Len(rows)] ==
        IF i = 0 THEN 0
        ELSE IF rows[i].bucket_3h = Some(w) /\ ~IsNa(rows[i][field])
             THEN F[i-1] + (IF abs THEN Abs(Val(rows[i][field])) ELSE Val(rows[i][field]))
             ELSE F[i-1]
  IN F[Len(rows)]

\* variant of _build_summary without the left merge onto all_buckets: only the
\* windows that hold a classified row have a summary row
_build_summary_sparse(matched, late_sync, missing_true, report_start, report_end, report_tz) ==
  LET all_buckets == SelectSeq(AllBuckets(report_start, report_end),
                               LAMBDA w : CountIn(matched \o late_sync \o missing_true, w) > 0)
  IN [k \in 1..Len(all_buckets) |->
        LET w == all_buckets[k]
        IN [bucket_3h |-> w,
            matched_count |-> CountTxnIn(matched, w),
            late_sync_count |-> CountIn(late_sync, w),
            missing_count |-> CountIn(missing_true, w),
            backend_total |-> SumIn(matched, w, "amount_backend", FALSE),
            wallet_total |-> SumIn(matched, w, "amount_wallet", FALSE),
            diff_total |-> SumIn(matched, w, "amount_diff", FALSE),
            abs_diff_total |-> SumIn(matched, w, "amount_diff", TRUE)]]

_build_summary(matched, late_sync, missing_true, report_start, report_end, report_tz) ==
  LET all_buckets == AllBuckets(report_start, report_end)
  IN [k \in 1..Len(all_buckets) |->
        LET w == all_buckets[k]
        IN [bucket_3h |-> w,
            matched_count |-> CountTxnIn(matched, w),
            late_sync_count |-> CountIn(late_sync, w),
            missing_count |-> CountIn(missing_true, w),
            backend_total |-> SumIn(matched, w, "amount_backend", FALSE),
            wallet_total |-> SumIn(matched, w, "amount_wallet", FALSE),
            diff_total |-> SumIn(matched, w, "amount_diff", FALSE),
            abs_diff_total |-> SumIn(matched, w, "amount_diff", TRUE)]]

\* the computed identifier column that _build_summary counts
TxnIdCol == <<"t","x","n","_","i","d">>

\* an exception leaves the caller without a result
Failed(err) ==
  [error |-> err, matched |-> <<>>, late_sync |-> <<>>, missing_true |-> <<>>, summary_3h |-> <<>>]

\* the three filters of "merged" and the summary; has_txn_id tells whether the
\* frame has a "txn_id" column: a non-empty matched table is aggregated with
\* agg(matched_count=("txn_id", "count")), which raises KeyError without it
ReconResult(merged, has_txn_id, a) ==
  LET matched == SelectSeq(merged, LAMBDA r : IsMatched(r, a.tolerance_minutes))
      late_sync == SelectSeq(merged, LAMBDA r : IsLateSync(r, a.tolerance_minutes))
      missing_true == SelectSeq(merged, LAMBDA r : IsMissingTrue(r))
  IN IF Len(matched) > 0 /\ ~has_txn_id
     THEN Failed([msg |-> "KeyError", tried |-> <<TxnIdCol>>,
                  available |-> <<>>])
     ELSE [error |-> NoError,
           matched |-> matched,
           late_sync |-> late_sync,
           missing_true |-> missing_true,
           summary_3h |-> _build_summary(matched, late_sync, missing_true,
                                         a.report_start, a.report_end, a.report_tz)]

\* first failing column access, in the order the code performs them
FirstError(steps) ==
  LET bad == {i \in 1..Len(steps) : ~steps[i].ok}
  IN IF bad = {} THEN NoError
     ELSE steps[CHOOSE i \in bad : \A j \in bad : i <= j].err

(***************************************************************************)
(* Key matching                                                            *)
(***************************************************************************)
\* str.contains(pat): pat is searched as a regular expression; of the
\* pattern operators only "." (any character) is modelled
ContainsRe(text, pat) ==
  \E i \in 1..(Len(text) - Len(pat) + 1) :
     \A k \in 1..Len(pat) : pat[k] = "." \/ pat[k] = text[i + k - 1]

LocalChars == Letters \cup Digits \cup {".", "_", "%", "+", "-"}
DomainChars == Letters \cup Digits \cup {".", "-"}

\* end of the greedy run [A-Z0-9._%+-]+ that starts at i
LocalEnd(s, i) ==
  LET stop == {k \in i..Len(s) : s[k] \notin LocalChars}
  IN IF stop = {} THEN Len(s) + 1 ELSE CHOOSE k \in stop : \A j \in stop : k <= j

\* positions of a "\." that can end the domain run after the "@" at position at
EmailDots(s, at) ==
  {d \in (at + 2)..(Len(s) - 2) :
      /\ s[d] = "."
      /\ \A k \in (at + 1)..(d - 1) : s[k] \in DomainChars
      /\ s[d + 1] \in Letters
      /\ s[d + 2] \in Letters}

EmailStarts(s) ==
  {i \in 1..Len(s) :
      LET at == LocalEnd(s, i)
      IN at > i /\ at <= Len(s) /\ s[at] = "@" /\ EmailDots(s, at) # {}}

\* str.extract(r'([A-Z0-9._%+-]+@[A-Z0-9.-]+\.[A-Z]{2,})', IGNORECASE).str.lower():
\* leftmost match, greedy domain and top-level part; NaN when nothing matches
_extract_email(cell) ==
  LET s == AsStr(cell)
      starts == EmailStarts(s)
  IN IF starts = {} THEN Null
     ELSE LET i0 == CHOOSE i \in starts : \A j \in starts : i <= j
              at == LocalEnd(s, i0)
              dots == EmailDots(s, at)
              d == CHOOSE x \in dots : \A y \in dots : y <= x
              ends == {j \in (d + 2)..Len(s) : \A k \in (d + 1)..j : s[k] \in Letters}
              j0 == CHOOSE x \in ends : \A y \in ends : y <= x
          IN Some(Lower(SubSeq(s, i0, j0)))

\* variant of PickNearest that takes the last row at minimum distance
PickNearest_last(m, backend_ts) ==
  LET d(i) == Abs(Val(m[i].ts_report_wallet) - Val(backend_ts))
      best == CHOOSE i \in 1..Len(m) :
                 /\ \A j \in 1..Len(m) : d(i) <= d(j)
                 /\ \A j \in (i + 1)..Len(m) : d(j) > d(i)
  IN [ts |-> m[best].ts_report_wallet, amount |-> m[best].amount_wallet_raw]

\* deltas = (m.ts_report_wallet - backend_ts).abs(); idx = deltas.idxmin():
\* the first row of m at minimum distance
PickNearest(m, backend_ts) ==
  LET d(i) == Abs(Val(m[i].ts_report_wallet) - Val(backend_ts))
      best == CHOOSE i \in 1..Len(m) :
                 /\ \A j \in 1..Len(m) : d(i) <= d(j)
                 /\ \A j \in 1..(i - 1) : d(j) > d(i)
  IN [ts |-> m[best].ts_report_wallet, amount |-> m[best].amount_wallet_raw]

\* _pick_best over the key-matching rows m of r_win
_pick_best(m, backend_ts) ==
  IF Len(m) = 0 \/ IsNa(backend_ts)
  THEN [ts |-> Null, amount |-> Null]
  ELSE PickNearest(m, backend_ts)

(***************************************************************************)
(* Frames after the column preparation of a strategy                       *)
(***************************************************************************)
\* mode "id": txn_id = _clean_id(id column), the key of the exact and substring
\* strategies; mode "email": match_key = lower-cased trimmed email, and txn_id
\* is whatever "txn_id" column the file itself has (f_txn = "" when it has none)
BackendFrame(df, f_key, f_ts, f_amount, f_txn, mode, a) ==
  [i \in 1..Len(df) |->
     [src |-> i,
      key |-> IF mode = "email"
              THEN Lower(Strip(AsStr(df[i][f_key])))
              ELSE _clean_id(df[i][f_key]),
      txn_id |-> IF mode = "email"
                 THEN (IF f_txn = "" THEN Null ELSE df[i][f_txn])
                 ELSE Some(_clean_id(df[i][f_key])),
      ts_report_backend |-> TzConvert(_to_utc(df[i][f_ts], a.backend_tz), a.report_tz),
      amount_backend |-> _safe_float(df[i][f_amount])]]

\* b[(ts >= report_start) & (ts < report_end)]
BackendWindow(b, a) ==
  SelectSeq(b, LAMBDA x : InWindow(x.ts_report_backend, a.report_start, a.report_end))

(***************************************************************************)
(* reconcile_exact                                                         *)
(***************************************************************************)
ExactJoin(b_win, w, report_tz) ==
  LET rows(b) ==
        LET m == SelectSeq(w, LAMBDA x : x.txn_id = b.key)
        IN IF Len(m) = 0
           THEN << MergedRow(b, Null, Null, report_tz) >>
           ELSE [k \in 1..Len(m) |->
                   MergedRow(b, m[k].ts_report_wallet, m[k].amount_wallet, report_tz)]
      F[i \in 0..Len(b_win)] == IF i = 0 THEN <<>> ELSE F[i-1] \o rows(b_win[i])
  IN F[Len(b_win)]

reconcile_exact(bdf, wdf, bcols, wcols, n, a) ==
  LET c_bid == _resolve_col(bcols, n.backend_id_col, BackendIdFallbacks)
      c_wid == _resolve_col(wcols, n.wallet_id_col, WalletIdFallbacks)
      c_bts == _resolve_col(bcols, n.backend_ts_col, BackendTsFallbacks)
      c_wts == DirectCol(wcols, n.wallet_ts_col)
      c_bam == _resolve_col(bcols, n.backend_amount_col, BackendAmountFallbacks)
      c_wam == DirectCol(wcols, n.wallet_amount_col)
      err == FirstError(<<c_bid, c_wid, c_bts, c_wts, c_bam, c_wam>>)
  IN IF err # NoError THEN Failed(err)
     ELSE
       LET b == BackendFrame(bdf, FieldOf(bcols, c_bid.name), FieldOf(bcols, c_bts.name),
                             FieldOf(bcols, c_bam.name), "", "id", a)
           w == [i \in 1..Len(wdf) |->
                   [txn_id |-> _clean_id(wdf[i][FieldOf(wcols, c_wid.name)]),
                    ts_report_wallet |->
                      TzConvert(_to_utc(wdf[i][FieldOf(wcols, c_wts.name)], a.wallet_tz), a.report_tz),
                    amount_wallet |-> AbsCell(_safe_float(wdf[i][FieldOf(wcols, c_wam.name)]))]]
           b_win == BackendWindow(b, a)
       IN ReconResult(ExactJoin(b_win, w, a.report_tz), TRUE, a)

(***************************************************************************)
(* reconcile_rise_substring and reconcile_rise_email                       *)
(***************************************************************************)
\* mode "id": _desc = upper-cased description; mode "email": match_key =
\* the email extracted from the description
RiseFrame(rdf, f_desc, f_ts, f_amount, mode, a) ==
  [i \in 1..Len(rdf) |->
     [key |-> IF mode = "email"
              THEN _extract_email(rdf[i][f_desc])
              ELSE Upper(AsStr(rdf[i][f_desc])),
      ts_report_wallet |-> TzConvert(_to_utc(rdf[i][f_ts], a.wallet_tz), a.report_tz),
      amount_wallet_raw |-> AbsCell(_safe_float(rdf[i][f_amount]))]]

\* r[(ts >= report_start - 6h) & (ts < report_end + 6h)]
RiseWindow(r, a) ==
  SelectSeq(r, LAMBDA x : InMargin(x.ts_report_wallet, a.report_start, a.report_end))

\* r_win["_desc"].str.contains(txn_id, na=False)
SubstringMatch(desc, txn_id) == ContainsRe(desc, txn_id)

\* rise_groups.get(key) over r_win.dropna(subset=["match_key"])
EmailMatch(match_key, key) == ~IsNa(match_key) /\ Val(match_key) = key

\* rows of b_win with the picked wallet timestamp and amount attached
RisePicked(b_win, r_win, mode, report_tz) ==
  [i \in 1..Len(b_win) |->
     LET m == SelectSeq(r_win, LAMBDA x : IF mode = "email"
                                          THEN EmailMatch(x.key, b_win[i].key)
                                          ELSE SubstringMatch(x.key, b_win[i].key))
         p == _pick_best(m, b_win[i].ts_report_backend)
     IN MergedRow(b_win[i], p.ts, p.amount, report_tz)]

reconcile_rise_substring(bdf, rdf, bcols, rcols, n, a) ==
  LET c_bid == _resolve_col(bcols, n.backend_id_col, BackendIdFallbacks)
      c_desc == DirectCol(rcols, n.rise_desc_col)
      c_bts == _resolve_col(bcols, n.backend_ts_col, BackendTsFallbacks)
      c_rts == _resolve_col(rcols, n.rise_ts_col, RiseTsFallbacks)
      c_bam == _resolve_col(bcols, n.backend_amount_col, BackendAmountFallbacks)
      c_ram == _resolve_col(rcols, n.rise_amount_col, RiseAmountFallbacks)
      err == FirstError(<<c_bid, c_desc, c_bts, c_rts, c_bam, c_ram>>)
  IN IF err # NoError THEN Failed(err)
     ELSE
       LET b == BackendFrame(bdf, FieldOf(bcols, c_bid.name), FieldOf(bcols, c_bts.name),
                             FieldOf(bcols, c_bam.name), "", "id", a)
           r == RiseFrame(rdf, FieldOf(rcols, c_desc.name), FieldOf(rcols, c_rts.name),
                          FieldOf(rcols, c_ram.name), "id", a)
           b_win == BackendWindow(b, a)
           r_win == RiseWindow(r, a)
       IN ReconResult(RisePicked(b_win, r_win, "id", a.report_tz), TRUE, a)

reconcile_rise_email(bdf, rdf, bcols, rcols, n, a) ==
  LET c_bem == DirectCol(bcols, n.backend_email_col)
      c_desc == DirectCol(rcols, n.rise_desc_col)
      c_bts == _resolve_col(bcols, n.backend_ts_col, BackendTsFallbacks)
      c_rts == _resolve_col(rcols, n.rise_ts_col, RiseTsFallbacks)
      c_bam == _resolve_col(bcols, n.backend_amount_col, BackendAmountFallbacks)
      c_ram == _resolve_col(rcols, n.rise_amount_col, RiseAmountFallbacks)
      err == FirstError(<<c_bem, c_desc, c_bts, c_rts, c_bam, c_ram>>)
  IN IF err # NoError THEN Failed(err)
     ELSE
       LET b == BackendFrame(bdf, FieldOf(bcols, c_bem.name), FieldOf(bcols, c_bts.name),
                             FieldOf(bcols, c_bam.name),
                             IF HasCol(bcols, TxnIdCol) THEN FieldOf(bcols, TxnIdCol) ELSE "",
                             "email", a)
           r == RiseFrame(rdf, FieldOf(rcols, c_desc.name), FieldOf(rcols, c_rts.name),
                          FieldOf(rcols, c_ram.name), "email", a)
           b_win == BackendWindow(b, a)
           r_win == RiseWindow(r, a)
       IN ReconResult(RisePicked(b_win, r_win, "email", a.report_tz),
                      HasCol(bcols, TxnIdCol), a)

(***************************************************************************)
(* Call sites: the column names and zones the strategies are called with   *)
(***************************************************************************)
ExactNames ==
  [backend_ts_col |-> <<"D","i","s","b","u","r","s","e","d"," ","T","i","m","e">>,
   backend_id_col |-> <<"T","r","a","n","s","a","c","t","i","o","n"," ","I","D">>,
   backend_amount_col |-> <<"D","i","s","b","u","r","s","e","m","e","n","t"," ","A","m","o","u","n","t">>,
   wallet_ts_col |-> <<"C","r","e","a","t","e","d">>,
   wallet_id_col |-> <<"T","r","a","c","k","i","n","g"," ","I","D">>,
   wallet_amount_col |-> <<"A","m","o","u","n","t">>]

RiseNames ==
  [backend_ts_col |-> <<"D","i","s","b","u","r","s","e","d"," ","T","i","m","e">>,
   backend_id_col |-> <<"P","a","y","m","e","n","t"," ","m","e","t","h","o","d"," ","I","D">>,
   backend_email_col |-> <<"C","u","s","t","o","m","e","r"," ","E","m","a","i","l">>,
   backend_amount_col |-> <<"D","i","s","b","u","r","s","e","m","e","n","t"," ","A","m","o","u","n","t">>,
   rise_ts_col |-> <<"D","a","t","e">>,
   rise_desc_col |-> <<"D","e","s","c","r","i","p","t","i","o","n">>,
   rise_amount_col |-> <<"A","m","o","u","n","t">>]

\* report_start / report_end are instants; tolerance_minutes as st.number_input
\* allows it; backend in Etc/GMT-2, counterparty report in UTC
Configs ==
  { [report_tz |-> 6, report_start |-> 18, report_end |-> 24, tolerance_minutes |-> 60,
     backend_tz |-> 2, wallet_tz |-> 0],
    [report_tz |-> 6, report_start |-> 18, report_end |-> 23, tolerance_minutes |-> 15,
     backend_tz |-> 2, wallet_tz |-> 0],
    [report_tz |-> 6, report_start |-> 19, report_end |-> 24, tolerance_minutes |-> 60,
     backend_tz |-> 2, wallet_tz |-> 0],
    [report_tz |-> 2, report_start |-> 19, report_end |-> 26, tolerance_minutes |-> 0,
     backend_tz |-> 2, wallet_tz |-> 0] }

(***************************************************************************)
(* Input data                                                              *)
(***************************************************************************)
\* the columns app.py reads by name with DataFrame.get
PaymentMethodCol == <<"P","a","y","m","e","n","t"," ","M","e","t","h","o","d">>
PlanCol == <<"P","l","a","n">>
InternalStatusCol == <<"I","n","t","e","r","n","a","l"," ","S","t","a","t","u","s">>

StdBackendCols ==
  << [name |-> <<"T","r","a","n","s","a","c","t","i","o","n"," ","I","D">>, field |-> "id"],
     [name |-> <<"D","i","s","b","u","r","s","e","d"," ","T","i","m","e">>, field |-> "ts"],
     [name |-> <<"D","i","s","b","u","r","s","e","m","e","n","t"," ","A","m","o","u","n","t">>, field |-> "amount"],
     [name |-> <<"C","u","s","t","o","m","e","r"," ","E","m","a","i","l">>, field |-> "email"],
     [name |-> PaymentMethodCol, field |-> "method"],
     [name |-> PlanCol, field |-> "plan"],
     [name |-> InternalStatusCol, field |-> "status"] >>

StdWalletCols ==
  << [name |-> <<"T","r","a","c","k","i","n","g"," ","I","D">>, field |-> "id"],
     [name |-> <<"C","r","e","a","t","e","d">>, field |-> "ts"],
     [name |-> <<"A","m","o","u","n","t">>, field |-> "amount"],
     [name |-> <<"D","e","s","c","r","i","p","t","i","o","n">>, field |-> "desc"] >>

\* backend rows: naive timestamps are wall clock hours in the backend zone
BackendRows ==
  { [id |-> Some(<<"p"," ">>), email |-> Some(<<" ","A","@","b",".","c","o">>),
     ts |-> Some(20), amount |-> Some(10),
     method |-> Some(<<"U","S","D","T">>), plan |-> Some(<<"F","u","t","u","r","e","s"," ","X">>), status |-> Some(<<"A","u","t","o","m","a","t","i","o","n">>)],
    [id |-> Some(<<"p"," ">>), email |-> Some(<<" ","A","@","b",".","c","o">>),
     ts |-> Some(22), amount |-> Some(10),
     method |-> Some(<<"R","i","s","e">>), plan |-> Some(<<"C","F","D">>), status |-> Some(<<"m","a","n","u","a","l">>)],
    [id |-> Some(<<"q">>), email |-> Some(<<"c","@","b",".","c","o">>),
     ts |-> Some(25), amount |-> Null,
     method |-> Some(<<"u","s","d","c">>), plan |-> Null, status |-> Some(<<"A","U","T","O","M","A","T","I","O","N">>)],
    [id |-> Some(<<"q">>), email |-> Some(<<"c","@","b",".","c","o">>),
     ts |-> Some(26), amount |-> Some(5),
     method |-> Some(<<"r","i","s","e","w","o","r","k","s">>), plan |-> Some(<<"x","-","F","U","T","U","R","E","S">>), status |-> Null],
    [id |-> Some(<<"p"," ">>), email |-> Some(<<" ","A","@","b",".","c","o">>),
     ts |-> Null, amount |-> Some(10),
     method |-> Some(<<"u","s","d","t">>), plan |-> Some(<<"C","F","D">>), status |-> Some(<<"m","a","n","u","a","l">>)],
    [id |-> Some(<<"q",".","c">>), email |-> Some(<<"c","@","b",".","c","o">>),
     ts |-> Some(23), amount |-> Some(5),
     method |-> Some(<<"r","i","s","e">>), plan |-> Some(<<"f","u","t","u","r","e","s">>), status |-> Some(<<"a","u","t","o","m","a","t","i","o","n">>)] }

\* counterparty rows: naive timestamps are wall clock hours in the wallet zone
WalletRows ==
  { [id |-> Some(<<" ","p">>), desc |-> Some(<<"p"," ","a","@","b",".","c","o">>),
     ts |-> Some(19), amount |-> Some(10)],
    [id |-> Some(<<" ","p">>), desc |-> Some(<<"p"," ","a","@","b",".","c","o">>),
     ts |-> Some(21), amount |-> Some(0 - 7)],
    [id |-> Some(<<" ","p">>), desc |-> Some(<<"p"," ","a","@","b",".","c","o">>),
     ts |-> Some(20), amount |-> Some(9)],
    [id |-> Some(<<" ","p">>), desc |-> Some(<<"p"," ","a","@","b",".","c","o">>),
     ts |-> Null, amount |-> Some(4)],
    [id |-> Some(<<"Q">>), desc |-> Some(<<"Q",":","C","@","B",".","C","O">>),
     ts |-> Some(12), amount |-> Some(5)],
    [id |-> Some(<<"Q">>), desc |-> Some(<<"Q",":","C","@","B",".","C","O">>),
     ts |-> Some(30), amount |-> Some(6)],
    [id |-> Some(<<"Q">>), desc |-> Some(<<"Q",":","C","@","B",".","C","O">>),
     ts |-> Some(23), amount |-> Null] }

NoArgs ==
  [report_tz |-> 0, report_start |-> 0, report_end |-> 0, tolerance_minutes |-> 0,
   backend_tz |-> 0, wallet_tz |-> 0]

NoResult == Failed(NoError)

(***************************************************************************)
(* State machine                                                           *)
(***************************************************************************)
Init ==
  /\ backend_df = <<>>
  /\ wallet_df = <<>>
  /\ b_cols = StdBackendCols
  /\ w_cols = StdWalletCols
  /\ pc = "load"
  /\ strategy = "none"
  /\ args = NoArgs
  /\ result = NoResult

\* one more row of the backend file
LoadBackend(row) ==
  /\ pc = "load"
  /\ Len(backend_df) < MaxBackend
  /\ backend_df' = Append(backend_df, row)
  /\ UNCHANGED <<wallet_df, b_cols, w_cols, pc, strategy, args, result>>

\* one more row of the counterparty report
LoadWallet(row) ==
  /\ pc = "load"
  /\ Len(wallet_df) < MaxWallet
  /\ wallet_df' = Append(wallet_df, row)
  /\ UNCHANGED <<backend_df, b_cols, w_cols, pc, strategy, args, result>>

ReconcileExact(a) ==
  /\ pc = "load"
  /\ pc' = "done"
  /\ strategy' = "exact"
  /\ args' = a
  /\ result' = reconcile_exact(backend_df, wallet_df, b_cols, w_cols, ExactNames, a)
  /\ UNCHANGED <<backend_df, wallet_df, b_cols, w_cols>>

ReconcileRiseSubstring(a) ==
  /\ pc = "load"
  /\ pc' = "done"
  /\ strategy' = "substring"
  /\ args' = a
  /\ result' = reconcile_rise_substring(backend_df, wallet_df, b_cols, w_cols, RiseNames, a)
  /\ UNCHANGED <<backend_df, wallet_df, b_cols, w_cols>>

ReconcileRiseEmail(a) ==
  /\ pc = "load"
  /\ pc' = "done"
  /\ strategy' = "email"
  /\ args' = a
  /\ result' = reconcile_rise_email(backend_df, wallet_df, b_cols, w_cols, RiseNames, a)
  /\ UNCHANGED <<backend_df, wallet_df, b_cols, w_cols>>

Next ==
  \/ \E row \in BackendRows : LoadBackend(row)
  \/ \E row \in WalletRows : LoadWallet(row)
  \/ \E a \in Configs : ReconcileExact(a)
  \/ \E a \in Configs : ReconcileRiseSubstring(a)
  \/ \E a \in Configs : ReconcileRiseEmail(a)

Spec == Init /\ [][Next]_vars

(***************************************************************************)
(* Second specification: the column headers of the two files vary          *)
(***************************************************************************)
BackendHeaderVariants ==
  { StdBackendCols,
    << [name |-> <<" ","t","r","a","n","s","a","c","t","i","o","n"," "," ","i","d"," ">>, field |-> "id"],
       [name |-> <<"D","I","S","B","U","R","S","E","D"," ","T","I","M","E">>, field |-> "ts"],
       [name |-> <<"d","i","s","b","u","r","s","e","m","e","n","t"," ","a","m","o","u","n","t">>, field |-> "amount"],
       [name |-> <<"C","u","s","t","o","m","e","r"," ","E","m","a","i","l">>, field |-> "email"] >>,
    << [name |-> <<"R","e","f","e","r","e","n","c","e">>, field |-> "id"],
       [name |-> <<"C","r","e","a","t","e","d"," ","A","t">>, field |-> "ts"],
       [name |-> <<"A","m","o","u","n","t">>, field |-> "amount"],
       [name |-> <<"C","u","s","t","o","m","e","r"," ","E","m","a","i","l">>, field |-> "email"] >>,
    << [name |-> <<"T","r","a","n","s","a","c","t","i","o","n"," ","I","D">>, field |-> "id"],
       [name |-> <<"D","i","s","b","u","r","s","e","m","e","n","t"," ","A","m","o","u","n","t">>, field |-> "amount"],
       [name |-> <<"C","u","s","t","o","m","e","r"," ","E","m","a","i","l">>, field |-> "email"] >>,
    << [name |-> <<"t","x","n","_","i","d">>, field |-> "id"],
       [name |-> <<"D","i","s","b","u","r","s","e","d"," ","T","i","m","e">>, field |-> "ts"],
       [name |-> <<"D","i","s","b","u","r","s","e","m","e","n","t"," ","A","m","o","u","n","t">>, field |-> "amount"],
       [name |-> <<"C","u","s","t","o","m","e","r"," ","E","m","a","i","l">>, field |-> "email"] >> }

WalletHeaderVariants ==
  { StdWalletCols,
    << [name |-> <<"t","r","a","c","k","i","n","g"," ","i","d">>, field |-> "id"],
       [name |-> <<"c","r","e","a","t","e","d">>, field |-> "ts"],
       [name |-> <<"a","m","o","u","n","t">>, field |-> "amount"],
       [name |-> <<"d","e","s","c","r","i","p","t","i","o","n">>, field |-> "desc"] >>,
    << [name |-> <<"T","r","a","c","k","i","n","g"," ","I","D">>, field |-> "id"],
       [name |-> <<"C","r","e","a","t","e","d">>, field |-> "ts"],
       [name |-> <<"D","e","s","c","r","i","p","t","i","o","n">>, field |-> "desc"] >>,
    << [name |-> <<"R","e","f","e","r","e","n","c","e"," ","I","D">>, field |-> "id"],
       [name |-> <<"T","i","m","e","s","t","a","m","p">>, field |-> "ts"],
       [name |-> <<"N","e","t"," ","A","m","o","u","n","t">>, field |-> "amount"],
       [name |-> <<"D","e","s","c","r","i","p","t","i","o","n">>, field |-> "desc"] >> }

InitCols ==
  /\ b_cols \in BackendHeaderVariants
  /\ w_cols \in WalletHeaderVariants
  /\ backend_df \in {<<>>} \cup {<<row>> : row \in {r \in BackendRows : r.ts = Some(22)}}
  /\ wallet_df \in {<<>>} \cup {<<row>> : row \in {r \in WalletRows : r.ts \in {Some(19), Some(12)}}}
  /\ pc = "load"
  /\ strategy = "none"
  /\ args = NoArgs
  /\ result = NoResult

NextCols ==
  \/ \E a \in Configs : ReconcileExact(a)
  \/ \E a \in Configs : ReconcileRiseSubstring(a)
  \/ \E a \in Configs : ReconcileRiseEmail(a)

SpecCols == InitCols /\ [][NextCols]_vars

(***************************************************************************)
(* Third specification: the declared source zones and the report zone vary *)
(***************************************************************************)
TzConfigs ==
  { [report_tz |-> 6, report_start |-> 18, report_end |-> 24, tolerance_minutes |-> 60,
     backend_tz |-> 2, wallet_tz |-> 0],
    [report_tz |-> 2, report_start |-> 18, report_end |-> 24, tolerance_minutes |-> 15,
     backend_tz |-> 2, wallet_tz |-> 6],
    [report_tz |-> 0, report_start |-> 24, report_end |-> 30, tolerance_minutes |-> 60,
     backend_tz |-> 0 - 5, wallet_tz |-> 0 - 5] }

TzBackendRows == {r \in BackendRows : r.ts \in {Some(20), Some(22), Some(25)}}

TzWalletRows == {r \in WalletRows : r.ts \in {Some(19), Some(20), Some(21), Some(23)}}

NextTz ==
  \/ \E row \in TzBackendRows : LoadBackend(row)
  \/ \E row \in TzWalletRows : LoadWallet(row)
  \/ \E a \in TzConfigs : ReconcileExact(a)
  \/ \E a \in TzConfigs : ReconcileRiseSubstring(a)
  \/ \E a \in TzConfigs : ReconcileRiseEmail(a)

SpecTz == Init /\ [][NextTz]_vars

(***************************************************************************)
(* Fourth specification: files with absent and blank key cells             *)
(***************************************************************************)
\* an empty CSV cell is read as NaN; a cell of blanks stays a text of blanks
KeyBackendRows ==
  { [id |-> Null, email |-> Null, ts |-> Some(22), amount |-> Some(10),
     method |-> Some(<<"u","s","d","t">>), plan |-> Null, status |-> Null],
    [id |-> Some(<<" ">>), email |-> Some(<<" ">>), ts |-> Some(23), amount |-> Some(5),
     method |-> Some(<<"r","i","s","e">>), plan |-> Null, status |-> Null] }
  \cup {r \in BackendRows : r.ts = Some(20)}

KeyWalletRows ==
  { [id |-> Null, desc |-> Some(<<"f","i","n","a","n","c","e">>), ts |-> Some(20), amount |-> Some(10)],
    [id |-> Some(<<" ">>), desc |-> Null, ts |-> Some(21), amount |-> Some(5)] }
  \cup {r \in WalletRows : r.ts = Some(23)}

NextKeys ==
  \/ \E row \in KeyBackendRows : LoadBackend(row)
  \/ \E row \in KeyWalletRows : LoadWallet(row)
  \/ \E a \in Configs : ReconcileExact(a)
  \/ \E a \in Configs : ReconcileRiseSubstring(a)
  \/ \E a \in Configs : ReconcileRiseEmail(a)

SpecKeys == Init /\ [][NextKeys]_vars

(***************************************************************************)
(* app.py: channel partition, the two reconciliations and the Breakdown    *)
(* tab.  The crypto report and the Rise report are both read from          *)
(* wallet_df: the exact strategy reads its identifier column, the          *)
(* substring strategy its description column.                              *)
(***************************************************************************)
FuturesText == <<"f","u","t","u","r","e","s">>
AutomationText == <<"a","u","t","o","m","a","t","i","o","n">>
CryptoMethods == {<<"u","s","d","t">>, <<"u","s","d","c">>}
RiseMethods == {<<"r","i","s","e","w","o","r","k","s">>, <<"r","i","s","e","w","o","r","k">>, <<"r","i","s","e">>}

\* np.where(plan.astype(str).str.lower().str.contains("futures"), "Futures", "CFD")
plan_category(cell) ==
  IF ContainsRe(Lower(AsStr(cell)), FuturesText) THEN "Futures" ELSE "CFD"

\* internal_status.astype(str).str.lower().str.contains("automation")
is_automation(cell) == ContainsRe(Lower(AsStr(cell)), AutomationText)

\* frame.get(name, pd.Series([""] * len(frame))): the cell, or "" without the column
GetCell(cols, row, name) ==
  IF HasCol(cols, name) THEN row[FieldOf(cols, name)] ELSE Some(<<>>)

\* pm = backend.get("Payment Method", ...).astype(str).str.lower()
PaymentMethod(cols, row) == Lower(AsStr(GetCell(cols, row, PaymentMethodCol)))

\* backend[pm.isin(["usdt","usdc"])]
BackendCrypto(bdf, cols) ==
  SelectSeq(bdf, LAMBDA row : PaymentMethod(cols, row) \in CryptoMethods)

\* backend[pm.isin(["riseworks","risework","rise"])]
BackendRise(bdf, cols) ==
  SelectSeq(bdf, LAMBDA row : PaymentMethod(cols, row) \in RiseMethods)

\* a row of rec: the columns of a classified row that the Breakdown reads
RecRow(r, frame, cols, channel) ==
  [channel |-> channel,
   _ptype |-> plan_category(GetCell(cols, frame[r.src], PlanCol)),
   _auto |-> is_automation(GetCell(cols, frame[r.src], InternalStatusCol)),
   txn_id |-> r.txn_id,
   amount_backend |-> r.amount_backend]

\* variant of ChannelParts that also takes the missing_true rows
ChannelParts_all(res, frame, cols, channel) ==
  LET rows == res.matched \o res.late_sync \o res.missing_true
  IN [k \in 1..Len(rows) |-> RecRow(rows[k], frame, cols, channel)]

\* [res.matched.assign(channel=...), res.late_sync.assign(channel=...)]
ChannelParts(res, frame, cols, channel) ==
  LET rows == res.matched \o res.late_sync
  IN [k \in 1..Len(rows) |-> RecRow(rows[k], frame, cols, channel)]

\* the group keys in the order of sort_values(["Payout Type", "Channel"])
GroupOrder ==
  << [ptype |-> "CFD", channel |-> "Crypto"], [ptype |-> "CFD", channel |-> "Rise"],
     [ptype |-> "Futures", channel |-> "Crypto"], [ptype |-> "Futures", channel |-> "Rise"] >>

\* sum of amount_backend over the rows of rec at the positions idx, NaN skipped
AmountSum(rec, idx) ==
  LET F[i \in 0..Len(rec)] ==
        IF i = 0 THEN 0
        ELSE IF i \in idx /\ ~IsNa(rec[i].amount_backend)
             THEN F[i-1] + Val(rec[i].amount_backend)
             ELSE F[i-1]
  IN F[Len(rec)]

\* rec.groupby(["_ptype","channel"]).agg(Count, Total_Sum, Automation_Count,
\* Automation_Sum): one row per group that has rows
Breakdown(rec) ==
  LET members(g) == {k \in 1..Len(rec) : rec[k]._ptype = g.ptype /\ rec[k].channel = g.channel}
      groups == SelectSeq(GroupOrder, LAMBDA g : members(g) # {})
  IN [n \in 1..Len(groups) |->
        LET g == groups[n]
        IN [ptype |-> g.ptype,
            channel |-> g.channel,
            Count |-> Cardinality({k \in members(g) : ~IsNa(rec[k].txn_id)}),
            Total_Sum |-> AmountSum(rec, members(g)),
            Automation_Count |-> Cardinality({k \in members(g) : rec[k]._auto}),
            Automation_Sum |-> AmountSum(rec, {k \in members(g) : rec[k]._auto})]]

\* one run of the page with the files uploaded; an exception of a strategy
\* ends the run, and an empty rec ends it before the Breakdown table
RunApp(a, run_crypto, run_rise) ==
  /\ pc = "load"
  /\ run_crypto \/ run_rise
  /\ \E backend_crypto \in {BackendCrypto(backend_df, b_cols)} :
     \E backend_rise \in {BackendRise(backend_df, b_cols)} :
     \E crypto_res \in {IF run_crypto
                         THEN reconcile_exact(backend_crypto, wallet_df, b_cols, w_cols,
                                              ExactNames, a)
                         ELSE NoResult} :
     \E rise_res \in {IF run_rise
                       THEN reconcile_rise_substring(backend_rise, wallet_df, b_cols, w_cols,
                                                     RiseNames, a)
                       ELSE NoResult} :
     \E rec \in {(IF run_crypto
                   THEN ChannelParts(crypto_res, backend_crypto, b_cols, "Crypto") ELSE <<>>)
                  \o (IF run_rise
                      THEN ChannelParts(rise_res, backend_rise, b_cols, "Rise") ELSE <<>>)} :
       LET err == IF crypto_res.error # NoError THEN crypto_res.error ELSE rise_res.error
       IN result' = [error |-> err,
                     run_crypto |-> run_crypto,
                     run_rise |-> run_rise,
                     crypto_res |-> crypto_res,
                     rise_res |-> rise_res,
                     shown |-> err = NoError /\ Len(rec) > 0,
                     summary |-> IF err = NoError THEN Breakdown(rec) ELSE <<>>]
  /\ pc' = "shown"
  /\ strategy' = "app"
  /\ args' = a
  /\ UNCHANGED <<backend_df, wallet_df, b_cols, w_cols>>

\* the report rows of the page runs
AppWalletRows == {r \in WalletRows : r.ts \in {Some(19), Some(21), Some(23), Null}}

NextApp ==
  \/ \E row \in BackendRows : LoadBackend(row)
  \/ \E row \in AppWalletRows : LoadWallet(row)
  \/ \E a \in Configs : \E run_crypto, run_rise \in BOOLEAN : RunApp(a, run_crypto, run_rise)

SpecApp == Init /\ [][NextApp]_vars

(***************************************************************************)
(* Vocabulary of the properties: the inputs of the run as the caller sees  *)
(* them (standard headers), recomputed from backend_df and wallet_df       *)
(***************************************************************************)
Returned == pc = "done" /\ result.error = NoError

Tables == result.matched \o result.late_sync \o result.missing_true

RowsOfIn(table, i) == Cardinality({k \in 1..Len(table) : table[k].src = i})

RowsOf(i) == RowsOfIn(Tables, i)

BackendParsed(i) == backend_df[i].ts # Null

BackendInstant(i) == Val(backend_df[i].ts) - args.backend_tz

WalletParsed(j) == wallet_df[j].ts # Null

WalletInstant(j) == Val(wallet_df[j].ts) - args.wallet_tz

WalletAmount(j) ==
  IF wallet_df[j].amount = Null THEN Null ELSE Some(Abs(Val(wallet_df[j].amount)))

Windowed(i) ==
  /\ BackendParsed(i)
  /\ args.report_start <= BackendInstant(i)
  /\ BackendInstant(i) < args.report_end

Visible(j) ==
  /\ WalletParsed(j)
  /\ args.report_start - MarginHours <= WalletInstant(j)
  /\ WalletInstant(j) < args.report_end + MarginHours

KeyMatch(i, j) ==
  CASE strategy = "exact" ->
         Upper(Strip(AsStr(wallet_df[j].id))) = Upper(Strip(AsStr(backend_df[i].id)))
    [] strategy = "substring" ->
         ContainsRe(Upper(AsStr(wallet_df[j].desc)), Upper(Strip(AsStr(backend_df[i].id))))
    [] strategy = "email" ->
         LET e == _extract_email(wallet_df[j].desc)
         IN e # Null /\ Val(e) = Lower(Strip(AsStr(backend_df[i].email)))
    [] OTHER -> FALSE

\* the counterparty rows a strategy can pair with backend row i
Candidates_of(i) ==
  {j \in 1..Len(wallet_df) :
     KeyMatch(i, j) /\ (IF strategy = "exact" THEN WalletParsed(j) ELSE Visible(j))}

Distance(i, j) == Abs(WalletInstant(j) - BackendInstant(i))

DelayOf(i, j) == (BackendInstant(i) - WalletInstant(j)) * MinutesPerHour

\* pat occurs in text character for character
LiteralOccurs(text, pat) ==
  \E i \in 1..(Len(text) - Len(pat) + 1) : SubSeq(text, i, i + Len(pat) - 1) = pat

(***************************************************************************)
(* C1  Partition completeness.  After a run of any of the three            *)
(* strategies, every backend record whose timestamp lies in                *)
(* [report_start, report_end) has exactly one row in matched, late_sync    *)
(* and missing_true taken together.                                        *)
(***************************************************************************)
C1_PartitionExactlyOnce ==
  pc = "done" =>
    \A i \in 1..Len(backend_df) :
      Windowed(i) =>
        RowsOfIn(result.matched, i) + RowsOfIn(result.late_sync, i)
          + RowsOfIn(result.missing_true, i) = 1

(***************************************************************************)
(* C2  Tolerance classification.  In a run that returns its tables, a      *)
(* windowed backend record paired with a counterparty record at            *)
(* delay = backend - counterparty (minutes) has a matched row with that    *)
(* delay when |delay| <= tolerance_minutes (the bound included, early and  *)
(* late alike) and a late_sync row when |delay| > tolerance_minutes; a     *)
(* record with no counterparty has a missing_true row; and every matched   *)
(* / late_sync / missing_true row satisfies the condition of its table.    *)
(***************************************************************************)
C2_Classified(i, j) ==
  LET d == DelayOf(i, j)
      table == IF Abs(d) <= args.tolerance_minutes THEN result.matched ELSE result.late_sync
  IN \E k \in 1..Len(table) : table[k].src = i /\ table[k].delay_min = Some(d)

C2_ToleranceClassification ==
  Returned =>
    /\ \A i \in 1..Len(backend_df) :
         Windowed(i) =>
           IF Candidates_of(i) = {}
           THEN \A k \in 1..Len(Tables) :
                  Tables[k].src = i => Tables[k].ts_report_wallet = Null
           ELSE IF strategy = "exact"
                THEN \A j \in Candidates_of(i) : C2_Classified(i, j)
                ELSE \E j \in Candidates_of(i) : C2_Classified(i, j)
    /\ \A k \in 1..Len(result.matched) :
         LET r == result.matched[k]
         IN /\ r.ts_report_wallet # Null
            /\ r.delay_min = Some((Val(r.ts_report_backend) - Val(r.ts_report_wallet)) * MinutesPerHour)
            /\ Abs(Val(r.delay_min)) <= args.tolerance_minutes
    /\ \A k \in 1..Len(result.late_sync) :
         LET r == result.late_sync[k]
         IN /\ r.ts_report_wallet # Null
            /\ r.delay_min = Some((Val(r.ts_report_backend) - Val(r.ts_report_wallet)) * MinutesPerHour)
            /\ Abs(Val(r.delay_min)) > args.tolerance_minutes
    /\ \A k \in 1..Len(result.missing_true) :
         result.missing_true[k].ts_report_wallet = Null

\* a counterparty one tolerance later than the backend record is matched,
\* next to a late_sync row of the same run
C2_Witness ==
  /\ Returned
  /\ args.tolerance_minutes > 0
  /\ \E k \in 1..Len(result.matched) :
       result.matched[k].delay_min = Some(0 - args.tolerance_minutes)
  /\ Len(result.late_sync) > 0

(***************************************************************************)
(* C3  Window completeness.  For report_start < report_end the summary has *)
(* exactly ceil((report_end - report_start) / 3h) rows, row k being the    *)
(* window that starts at report_start + (k-1) * 3h, and a window in which  *)
(* no classified record falls has all counts and all sums zero.            *)
(***************************************************************************)
C3_NoActivity(w) ==
  \A k \in 1..Len(Tables) :
    ~(w <= Val(Tables[k].ts_report_backend)
        /\ Val(Tables[k].ts_report_backend) < w + BucketHours)

C3_WindowCompleteness ==
  (Returned /\ args.report_start < args.report_end) =>
    LET n == Len(result.summary_3h)
        span == args.report_end - args.report_start
    IN /\ BucketHours * (n - 1) < span
       /\ span <= BucketHours * n
       /\ \A k \in 1..n :
            LET row == result.summary_3h[k]
            IN /\ row.bucket_3h = args.report_start + (k - 1) * BucketHours
               /\ C3_NoActivity(row.bucket_3h) =>
                    /\ row.matched_count = 0
                    /\ row.late_sync_count = 0
                    /\ row.missing_count = 0
                    /\ row.backend_total = 0
                    /\ row.wallet_total = 0
                    /\ row.diff_total = 0
                    /\ row.abs_diff_total = 0

\* an interval that is not a whole number of windows, with one busy window
\* and one empty window in the summary
C3_Witness ==
  /\ Returned
  /\ (args.report_end - args.report_start) % BucketHours # 0
  /\ \E k \in 1..Len(result.summary_3h) : result.summary_3h[k].matched_count > 0
  /\ \E k \in 1..Len(result.summary_3h) : C3_NoActivity(result.summary_3h[k].bucket_3h)

(***************************************************************************)
(* C4  Summary counts.  For any reporting interval, also one whose start   *)
(* is off the 3-hour clock grid of the report zone, the summary row of     *)
(* window w counts the matched, late_sync and missing_true rows whose      *)
(* backend timestamp lies in [w, w + 3h).                                  *)
(***************************************************************************)
C4_RowsInWindow(table, w) ==
  Cardinality({k \in 1..Len(table) :
                 /\ w <= Val(table[k].ts_report_backend)
                 /\ Val(table[k].ts_report_backend) < w + BucketHours})

C4_SummaryCountsEveryRow ==
  Returned =>
    \A k \in 1..Len(result.summary_3h) :
      LET row == result.summary_3h[k]
      IN /\ row.matched_count = C4_RowsInWindow(result.matched, row.bucket_3h)
         /\ row.late_sync_count = C4_RowsInWindow(result.late_sync, row.bucket_3h)
         /\ row.missing_count = C4_RowsInWindow(result.missing_true, row.bucket_3h)

(***************************************************************************)
(* C5  Nearest-timestamp choice.  In the substring and email strategies,   *)
(* a returned row of a backend record with visible key-matching            *)
(* counterparty records reports the timestamp and amount of exactly one of *)
(* them: one at minimum absolute time distance, and among those the first  *)
(* in the input order of the counterparty set.                             *)
(***************************************************************************)
C5_First(i, j) ==
  /\ \A j2 \in Candidates_of(i) : Distance(i, j) <= Distance(i, j2)
  /\ \A j2 \in Candidates_of(i) : j2 < j => Distance(i, j2) > Distance(i, j)

C5_NearestFirstChosen ==
  (Returned /\ strategy \in {"substring", "email"}) =>
    /\ \A i \in 1..Len(backend_df) : Windowed(i) => RowsOf(i) = 1
    /\ \A k \in 1..Len(Tables) :
         LET r == Tables[k]
         IN IF Candidates_of(r.src) = {}
            THEN r.ts_report_wallet = Null /\ r.amount_wallet = Null
            ELSE \E j \in Candidates_of(r.src) :
                   /\ C5_First(r.src, j)
                   /\ r.ts_report_wallet = Some(WalletInstant(j))
                   /\ r.amount_wallet = WalletAmount(j)

\* two candidates at the same minimum distance with different amounts, the
\* first of them reported
C5_Witness ==
  /\ Returned
  /\ strategy \in {"substring", "email"}
  /\ \E k \in 1..Len(Tables) :
       \E j1, j2 \in Candidates_of(Tables[k].src) :
          /\ j1 < j2
          /\ C5_First(Tables[k].src, j1)
          /\ Distance(Tables[k].src, j1) = Distance(Tables[k].src, j2)
          /\ WalletAmount(j1) # WalletAmount(j2)
          /\ Tables[k].amount_wallet = WalletAmount(j1)

(***************************************************************************)
(* C6  Exact join pairs one counterparty.  In reconcile_exact every        *)
(* windowed backend record has exactly one output row; when counterparty   *)
(* records share its identifier the row carries the timestamp and amount   *)
(* of the first-listed one.                                                *)
(***************************************************************************)
C6_ExactFirstListedOnly ==
  (pc = "done" /\ strategy = "exact") =>
    \A i \in 1..Len(backend_df) :
      Windowed(i) =>
        /\ RowsOf(i) = 1
        /\ \A k \in 1..Len(Tables) :
             \A j \in 1..Len(wallet_df) :
               (/\ Tables[k].src = i
                /\ KeyMatch(i, j)
                /\ \A j2 \in 1..(j - 1) : ~KeyMatch(i, j2))
               => /\ Tables[k].amount_wallet = WalletAmount(j)
                  /\ Tables[k].ts_report_wallet =
                       (IF WalletParsed(j) THEN Some(WalletInstant(j)) ELSE Null)

(***************************************************************************)
(* C7  Amount difference.  Every missing_true row has amount_wallet and    *)
(* amount_diff null; every matched and late_sync row has                   *)
(* amount_diff = amount_backend - amount_wallet.  All three strategies,    *)
(* also when the key-matching counterparty record has an unparseable       *)
(* timestamp and a valid amount.                                           *)
(***************************************************************************)
C7_Diff(r) ==
  IF r.amount_backend = Null \/ r.amount_wallet = Null
  THEN Null
  ELSE Some(Val(r.amount_backend) - Val(r.amount_wallet))

C7_MissingHasNoAmounts ==
  pc = "done" =>
    /\ \A k \in 1..Len(result.missing_true) :
         /\ result.missing_true[k].amount_wallet = Null
         /\ result.missing_true[k].amount_diff = Null
    /\ \A k \in 1..Len(result.matched) :
         result.matched[k].amount_diff = C7_Diff(result.matched[k])
    /\ \A k \in 1..Len(result.late_sync) :
         result.late_sync[k].amount_diff = C7_Diff(result.late_sync[k])

(***************************************************************************)
(* C8  Half-open reporting interval.  In a run that returns its tables, a  *)
(* backend record has a row in matched, late_sync or missing_true if and   *)
(* only if its timestamp was parsed and                                    *)
(* report_start <= t < report_end.                                         *)
(***************************************************************************)
C8_WindowedIffPresent ==
  Returned =>
    \A i \in 1..Len(backend_df) :
      (RowsOf(i) > 0) <=>
        (/\ backend_df[i].ts # Null
         /\ args.report_start <= Val(backend_df[i].ts) - args.backend_tz
         /\ Val(backend_df[i].ts) - args.backend_tz < args.report_end)

\* one record exactly at report_start (present) and one exactly at
\* report_end (absent) in the same run
C8_Witness ==
  /\ Returned
  /\ \E i1, i2 \in 1..Len(backend_df) :
       /\ BackendParsed(i1) /\ BackendInstant(i1) = args.report_start
       /\ RowsOf(i1) = 1
       /\ BackendParsed(i2) /\ BackendInstant(i2) = args.report_end
       /\ RowsOf(i2) = 0

(***************************************************************************)
(* C9  Visibility margin.  In the substring and email strategies a row     *)
(* that reports a counterparty timestamp reports one of a key-matching     *)
(* record with report_start - 6h <= t < report_end + 6h, and a backend     *)
(* record whose key-matching counterparty records all lie outside that     *)
(* margin is in missing_true.                                              *)
(***************************************************************************)
C9_InsideMargin(j) ==
  /\ wallet_df[j].ts # Null
  /\ args.report_start - MarginHours <= Val(wallet_df[j].ts) - args.wallet_tz
  /\ Val(wallet_df[j].ts) - args.wallet_tz < args.report_end + MarginHours

C9_OutsideMarginInvisible ==
  (Returned /\ strategy \in {"substring", "email"}) =>
    /\ \A k \in 1..Len(Tables) :
         Tables[k].ts_report_wallet # Null =>
           \E j \in 1..Len(wallet_df) :
              /\ KeyMatch(Tables[k].src, j)
              /\ C9_InsideMargin(j)
              /\ Tables[k].ts_report_wallet = Some(Val(wallet_df[j].ts) - args.wallet_tz)
    /\ \A i \in 1..Len(backend_df) :
         (/\ Windowed(i)
          /\ \A j \in 1..Len(wallet_df) : KeyMatch(i, j) => ~C9_InsideMargin(j))
         => RowsOfIn(result.missing_true, i) = 1

\* a key-matching counterparty record with a parsed timestamp outside the
\* margin, and its backend record in missing_true
C9_Witness ==
  /\ Returned
  /\ strategy \in {"substring", "email"}
  /\ \E i \in 1..Len(backend_df) :
       /\ Windowed(i)
       /\ RowsOfIn(result.missing_true, i) = 1
       /\ \E j \in 1..Len(wallet_df) :
            KeyMatch(i, j) /\ wallet_df[j].ts # Null /\ ~C9_InsideMargin(j)

(***************************************************************************)
(* C10  Column resolution.  Every required column of a strategy            *)
(* (identifier, timestamp, amount of the backend and of the counterparty   *)
(* file) is found by case- and whitespace-insensitive lookup of the        *)
(* requested name, then of its synonyms in order; a run fails on a column  *)
(* only when no accepted name is present, and then with the                *)
(* "Column not found" error that names the attempted names and the         *)
(* available columns.                                                      *)
(***************************************************************************)
C10_Required ==
  CASE strategy = "exact" ->
         << [cols |-> b_cols, requested |-> ExactNames.backend_id_col, fallbacks |-> BackendIdFallbacks],
            [cols |-> w_cols, requested |-> ExactNames.wallet_id_col, fallbacks |-> WalletIdFallbacks],
            [cols |-> b_cols, requested |-> ExactNames.backend_ts_col, fallbacks |-> BackendTsFallbacks],
            [cols |-> w_cols, requested |-> ExactNames.wallet_ts_col, fallbacks |-> <<>>],
            [cols |-> b_cols, requested |-> ExactNames.backend_amount_col, fallbacks |-> BackendAmountFallbacks],
            [cols |-> w_cols, requested |-> ExactNames.wallet_amount_col, fallbacks |-> <<>>] >>
    [] strategy = "substring" ->
         << [cols |-> b_cols, requested |-> RiseNames.backend_id_col, fallbacks |-> BackendIdFallbacks],
            [cols |-> w_cols, requested |-> RiseNames.rise_desc_col, fallbacks |-> <<>>],
            [cols |-> b_cols, requested |-> RiseNames.backend_ts_col, fallbacks |-> BackendTsFallbacks],
            [cols |-> w_cols, requested |-> RiseNames.rise_ts_col, fallbacks |-> RiseTsFallbacks],
            [cols |-> b_cols, requested |-> RiseNames.backend_amount_col, fallbacks |-> BackendAmountFallbacks],
            [cols |-> w_cols, requested |-> RiseNames.rise_amount_col, fallbacks |-> RiseAmountFallbacks] >>
    [] strategy = "email" ->
         << [cols |-> b_cols, requested |-> RiseNames.backend_email_col, fallbacks |-> <<>>],
            [cols |-> w_cols, requested |-> RiseNames.rise_desc_col, fallbacks |-> <<>>],
            [cols |-> b_cols, requested |-> RiseNames.backend_ts_col, fallbacks |-> BackendTsFallbacks],
            [cols |-> w_cols, requested |-> RiseNames.rise_ts_col, fallbacks |-> RiseTsFallbacks],
            [cols |-> b_cols, requested |-> RiseNames.backend_amount_col, fallbacks |-> BackendAmountFallbacks],
            [cols |-> w_cols, requested |-> RiseNames.rise_amount_col, fallbacks |-> RiseAmountFallbacks] >>
    [] OTHER -> <<>>

C10_Present(q) ==
  \E c \in 1..Len(<<q.requested>> \o q.fallbacks) :
    \E k \in 1..Len(q.cols) :
      CollapseWs(Lower(Strip(q.cols[k].name)))
        = CollapseWs(Lower(Strip((<<q.requested>> \o q.fallbacks)[c])))

C10_ColumnFailure ==
  \/ result.error.msg = "Column not found"
  \/ result.error.msg = "KeyError" /\ result.error.tried # <<TxnIdCol>>

C10_ColumnsResolvedOrNotFound ==
  pc = "done" =>
    LET req == C10_Required
        absent == {k \in 1..Len(req) : ~C10_Present(req[k])}
    IN IF absent = {}
       THEN ~C10_ColumnFailure
       ELSE LET first == CHOOSE k \in absent : \A k2 \in absent : k <= k2
            IN /\ result.error.msg = "Column not found"
               /\ result.error.tried = <<req[first].requested>> \o req[first].fallbacks
               /\ result.error.available = ColNames(req[first].cols)

(***************************************************************************)
(* C11  Empty inputs.  With well-formed headers, when the backend set or   *)
(* the counterparty set is empty, or no backend record lies in the         *)
(* reporting window, each strategy returns without error; matched and      *)
(* late_sync are empty, missing_true is empty too when no backend record   *)
(* is windowed, and the summary has one row per 3-hour window of the       *)
(* interval, with zero counts and zero sums of matched and late_sync (and  *)
(* a zero missing count when missing_true is empty).                       *)
(***************************************************************************)
C11_NothingToPair ==
  \/ Len(backend_df) = 0
  \/ Len(wallet_df) = 0
  \/ \A i \in 1..Len(backend_df) : ~Windowed(i)

C12_Literal(i, j) ==
  LiteralOccurs(Upper(AsStr(wallet_df[j].desc)), Upper(Strip(AsStr(backend_df[i].id))))

C12_LiteralSubstringOnly ==
  (Returned /\ strategy = "substring") =>
    \A k \in 1..Len(Tables) :
      (Tables[k].ts_report_wallet # Null)
        <=> \E j \in 1..Len(wallet_df) : Visible(j) /\ C12_Literal(Tables[k].src, j)

(***************************************************************************)
(* C13  Cross-channel breakdown.  After a run of the page, each row of the *)
(* Breakdown table for (payout type, channel) has Count = the number of    *)
(* matched plus late_sync rows of that channel whose plan contains         *)
(* "futures" in any letter case (type Futures) or does not (type CFD), and *)
(* Automation_Count = the number of those whose status contains            *)
(* "automation" in any letter case; every such non-empty group has a row;  *)
(* the Counts add up to the number of matched plus late_sync rows of both  *)
(* channels, so no missing_true row is counted.                            *)
(***************************************************************************)
C13_Rows(channel) ==
  IF channel = "Crypto"
  THEN result.crypto_res.matched \o result.crypto_res.late_sync
  ELSE result.rise_res.matched \o result.rise_res.late_sync

\* the backend record of a classified row of a channel
C13_Source(channel, r) ==
  IF channel = "Crypto"
  THEN SelectSeq(backend_df, LAMBDA b : Lower(AsStr(b.method)) \in CryptoMethods)[r.src]
  ELSE SelectSeq(backend_df, LAMBDA b : Lower(AsStr(b.method)) \in RiseMethods)[r.src]

C13_Type(r, channel) ==
  IF LiteralOccurs(Lower(AsStr(C13_Source(channel, r).plan)), FuturesText)
  THEN "Futures" ELSE "CFD"

C13_Auto(r, channel) ==
  LiteralOccurs(Lower(AsStr(C13_Source(channel, r).status)), AutomationText)

C13_Group(ptype, channel) ==
  {k \in 1..Len(C13_Rows(channel)) : C13_Type(C13_Rows(channel)[k], channel) = ptype}

C13_CountSum ==
  LET F[n \in 0..Len(result.summary)] ==
        IF n = 0 THEN 0 ELSE F[n-1] + result.summary[n].Count
  IN F[Len(result.summary)]

ReportZones == {0 - 5, 0, 2, 6}

C14_RoundTrip(wall, source_tz) ==
  \A tz \in ReportZones :
    /\ tz_convert(tz_convert(tz_localize(wall, source_tz), 0), tz)
         = tz_convert(tz_localize(wall, source_tz), tz)
    /\ InstantOf(tz_convert(tz_localize(wall, source_tz), tz)) = wall - source_tz

C14_Rerun(tz) ==
  CASE strategy = "exact" ->
         reconcile_exact(backend_df, wallet_df, b_cols, w_cols, ExactNames,
                         [args EXCEPT !.report_tz = tz])
    [] strategy = "substring" ->
         reconcile_rise_substring(backend_df, wallet_df, b_cols, w_cols, RiseNames,
                                  [args EXCEPT !.report_tz = tz])
    [] strategy = "email" ->
         reconcile_rise_email(backend_df, wallet_df, b_cols, w_cols, RiseNames,
                              [args EXCEPT !.report_tz = tz])

C14_Pairs(table) ==
  [k \in 1..Len(table) |->
     [src |-> table[k].src,
      ts_report_backend |-> table[k].ts_report_backend,
      ts_report_wallet |-> table[k].ts_report_wallet,
      delay_min |-> table[k].delay_min]]

C14_Classification(res) ==
  [error |-> res.error,
   matched |-> C14_Pairs(res.matched),
   late_sync |-> C14_Pairs(res.late_sync),
   missing_true |-> C14_Pairs(res.missing_true)]

C14_ReportZoneIndependent ==
  pc = "done" =>
    /\ \A i \in 1..Len(backend_df) :
         BackendParsed(i) => C14_RoundTrip(Val(backend_df[i].ts), args.backend_tz)
    /\ \A j \in 1..Len(wallet_df) :
         WalletParsed(j) => C14_RoundTrip(Val(wallet_df[j].ts), args.wallet_tz)
    /\ \A tz \in ReportZones :
         C14_Classification(C14_Rerun(tz)) = C14_Classification(result)

\* source zones that differ: a backend record and a counterparty record with
\* different wall clocks are matched at delay 0, next to a late_sync row
C14_Witness ==
  /\ Returned
  /\ args.backend_tz # args.wallet_tz
  /\ \E k \in 1..Len(result.matched) :
       /\ result.matched[k].delay_min = Some(0)
       /\ \A j \in 1..Len(wallet_df) : wallet_df[j].ts # backend_df[result.matched[k].src].ts
  /\ Len(result.late_sync) > 0

(***************************************************************************)
(* C15  Absent keys never pair.  In a run of any strategy that returns its *)
(* tables, a windowed backend record whose key cell (identifier, or email  *)
(* in the email strategy) is missing or blank has exactly one row, in      *)
(* missing_true, and none in matched or late_sync, whatever the            *)
(* counterparty file holds.                                                *)
(***************************************************************************)
C15_KeyCell(i) == IF strategy = "email" THEN backend_df[i].email ELSE backend_df[i].id

C15_AbsentKey(i) == IsNa(C15_KeyCell(i)) \/ Strip(Val(C15_KeyCell(i))) = <<>>

C15_AbsentKeyIsMissing ==
  Returned =>
    \A i \in 1..Len(backend_df) :
      (Windowed(i) /\ C15_AbsentKey(i)) =>
        /\ RowsOfIn(result.missing_true, i) = 1
        /\ RowsOfIn(result.matched, i) = 0
        /\ RowsOfIn(result.late_sync, i) = 0

====
